---- MODULE Spec2Model ----
(***************************************************************************)
(* A model of unilangs: the BCP47 tag parser (bcp47/parser.py), the subtag *)
(* registry maps (bcp47/registry.py) and the strict / best-fit lookup      *)
(* dictionaries with their converters (bcp47/converter.py), and the tables *)
(* of the standards with LanguageCode (unilangs.py).                       *)
(*                                                                         *)
(* A Python str is a sequence of one-character strings, so that lower(),   *)
(* split('-'), startswith() and len() are computed and not assumed.        *)
(* Python's None is `None` where a str is expected and `NoSubtag` where a  *)
(* registry entry (a dict) is expected.                                    *)
(***************************************************************************)
EXTENDS Integers, Sequences, FiniteSets, TLC

VARIABLES
    op,           \* the operation that ran last ("init" before any)
    code,         \* the str argument of the last parser / converter call
    args,         \* the arguments of the last dict lookup or standards call
    result,       \* the outcome of the last operation: a return value or a raise
    strict_dict,  \* BCP47_TO_UNILANGS_STRICT, a StrictDict
    lossy_dict,   \* BCP47_TO_UNILANGS_LOSSY, a BestFitDict
    TO_INTERNAL,  \* standard name -> that standard's codes to the internal codes
    FROM_INTERNAL \* standard name -> the internal codes to that standard's codes

standards == <<TO_INTERNAL, FROM_INTERNAL>>

vars == <<op, code, args, result, strict_dict, lossy_dict, TO_INTERNAL, FROM_INTERNAL>>

(***************************************************************************)
(* Python values                                                           *)
(***************************************************************************)
None == <<"None">>
NoSubtag == [type |-> "None"]

Return(v) == [status |-> "return", value |-> v]
Raise(exc, msg) == [status |-> "raise", exc |-> exc, msg |-> msg]
NoResult == [status |-> "none"]

\* truth value of a str-or-None: None and '' are false
Truthy(s) == s /= None /\ s /= <<>>

(***************************************************************************)
(* str methods                                                             *)
(***************************************************************************)
UPPERCASE == <<"A", "B", "C", "D", "E", "F", "G", "H", "I", "J", "K", "L", "M",
               "N", "O", "P", "Q", "R", "S", "T", "U", "V", "W", "X", "Y", "Z">>
LOWERCASE == <<"a", "b", "c", "d", "e", "f", "g", "h", "i", "j", "k", "l", "m",
               "n", "o", "p", "q", "r", "s", "t", "u", "v", "w", "x", "y", "z">>

LowerChar(c) ==
    IF \E i \in DOMAIN UPPERCASE : UPPERCASE[i] = c
    THEN LOWERCASE[CHOOSE i \in DOMAIN UPPERCASE : UPPERCASE[i] = c]
    ELSE c

lower(s) == [i \in DOMAIN s |-> LowerChar(s[i])]

UpperChar(c) ==
    IF \E i \in DOMAIN LOWERCASE : LOWERCASE[i] = c
    THEN UPPERCASE[CHOOSE i \in DOMAIN LOWERCASE : LOWERCASE[i] = c]
    ELSE c

upper(s) == [i \in DOMAIN s |-> UpperChar(s[i])]

HasDash(s) == \E i \in DOMAIN s : s[i] = "-"

FirstDash(s) == CHOOSE i \in DOMAIN s : s[i] = "-" /\ \A j \in 1..(i - 1) : s[j] /= "-"

\* s.split('-')
RECURSIVE split(_)
split(s) ==
    IF HasDash(s)
    THEN <<SubSeq(s, 1, FirstDash(s) - 1)>> \o split(SubSeq(s, FirstDash(s) + 1, Len(s)))
    ELSE <<s>>

startswith(s, prefix) ==
    Len(s) >= Len(prefix) /\ SubSeq(s, 1, Len(prefix)) = prefix

\* '-'.join(pieces)
RECURSIVE join(_)
join(pieces) ==
    IF pieces = <<>> THEN <<>>
    ELSE IF Len(pieces) = 1 THEN pieces[1]
    ELSE pieces[1] \o <<"-">> \o join(Tail(pieces))

(***************************************************************************)
(* The strs the model uses                                                 *)
(***************************************************************************)
s_sgn == <<"s", "g", "n">>
s_ase == <<"a", "s", "e">>
s_ji == <<"j", "i">>
s_yi == <<"y", "i">>
s_art == <<"a", "r", "t">>
s_jbo == <<"j", "b", "o">>
s_nv == <<"n", "v">>
s_Latn == <<"L", "a", "t", "n">>
s_US == <<"U", "S">>
s_rozaj == <<"r", "o", "z", "a", "j">>
s_x == <<"x">>
s_i == <<"i">>
s_foo == <<"f", "o", "o">>
s_lojban == <<"l", "o", "j", "b", "a", "n">>
s_Navajo == <<"N", "a", "v", "a", "j", "o">>
s_ART == <<"A", "R", "T">>
s_art_lojban == <<"a", "r", "t", "-", "l", "o", "j", "b", "a", "n">>
s_i_navajo == <<"i", "-", "n", "a", "v", "a", "j", "o">>
s_sr == <<"s", "r">>
s_en == <<"e", "n">>
s_latn == <<"l", "a", "t", "n">>
s_sr_latn == <<"s", "r", "-", "l", "a", "t", "n">>
s_empty == <<>>
s_a == <<"a">>
s_bar == <<"b", "a", "r">>
s_biske == <<"b", "i", "s", "k", "e">>
s_zh == <<"z", "h">>
s_GB == <<"G", "B">>
s_gb == <<"g", "b">>
s_SG == <<"S", "G">>
s_sg == <<"s", "g">>
s_Hans == <<"H", "a", "n", "s">>
s_hans == <<"h", "a", "n", "s">>
s_en_gb == <<"e", "n", "-", "g", "b">>
s_zh_cn == <<"z", "h", "-", "c", "n">>
s_zh_sg == <<"z", "h", "-", "s", "g">>

(***************************************************************************)
(* bcp47/registry.py: a sample of the subtag registry, every record        *)
(* reduced to its type, its subtag (or tag) as the registry spells it and  *)
(* its preferred value, and the maps built from it.                        *)
(***************************************************************************)
Subtag(typ, subtag, preferred) ==
    [type |-> typ, subtag |-> subtag, preferred_value |-> preferred]

Tag(typ, tag, preferred) ==
    [type |-> typ, tag |-> tag, preferred_value |-> preferred]

REGISTRY == {
    Subtag("language", s_sgn, None),
    Subtag("language", s_ase, None),
    Subtag("language", s_ji, s_yi),
    Subtag("language", s_yi, None),
    Subtag("language", s_art, None),
    Subtag("language", s_jbo, None),
    Subtag("language", s_nv, None),
    Subtag("language", s_en, None),
    Subtag("language", s_zh, None),
    Subtag("extlang", s_ase, s_ase),
    Subtag("script", s_Latn, None),
    Subtag("script", s_Hans, None),
    Subtag("region", s_US, None),
    Subtag("region", s_GB, None),
    Subtag("region", s_SG, None),
    Subtag("variant", s_rozaj, None),
    Subtag("variant", s_biske, None),
    Tag("grandfathered", s_art_lojban, s_jbo),
    Tag("grandfathered", s_i_navajo, s_nv) }

_filter_subtags(typ) == {st \in REGISTRY : st.type = typ}

_map_by_subtag(typ) ==
    [k \in {lower(st.subtag) : st \in _filter_subtags(typ)} |->
        CHOOSE st \in _filter_subtags(typ) : lower(st.subtag) = k]

_map_by_tag(typ) ==
    [k \in {lower(st.tag) : st \in _filter_subtags(typ)} |->
        CHOOSE st \in _filter_subtags(typ) : lower(st.tag) = k]

LANGUAGE_SUBTAGS == _map_by_subtag("language")
SCRIPT_SUBTAGS == _map_by_subtag("script")
REGION_SUBTAGS == _map_by_subtag("region")
VARIANT_SUBTAGS == _map_by_subtag("variant")
EXTLANG_SUBTAGS == _map_by_subtag("extlang")
GRANDFATHERED_SUBTAGS == _map_by_tag("grandfathered")

(***************************************************************************)
(* bcp47/parser.py                                                         *)
(***************************************************************************)
MalformedLanguageCodeException == "MalformedLanguageCodeException"

\* _split_at(lambda el: len(el) == 1, seq): the generator's state after the
\* elements of seq: the runs yielded so far, the run being built (next) and
\* whether next is still the None it starts as.
RECURSIVE _split_at_loop(_)
_split_at_loop(seq) ==
    IF seq = <<>> THEN [yielded |-> <<>>, next |-> <<>>, next_is_None |-> TRUE]
    ELSE LET before == _split_at_loop(SubSeq(seq, 1, Len(seq) - 1))
             el == seq[Len(seq)]
         IN  IF Len(el) = 1
             THEN IF ~before.next_is_None
                  THEN [yielded |-> Append(before.yielded, before.next),
                        next |-> <<el>>, next_is_None |-> FALSE]
                  ELSE [yielded |-> before.yielded,
                        next |-> <<el>>, next_is_None |-> FALSE]
             ELSE IF before.next_is_None
                  THEN [yielded |-> before.yielded,
                        next |-> <<el>>, next_is_None |-> FALSE]
                  ELSE [yielded |-> before.yielded,
                        next |-> Append(before.next, el), next_is_None |-> FALSE]

_split_at(seq) ==
    LET final == _split_at_loop(seq)
    IN  IF ~final.next_is_None /\ final.next /= <<>>
        THEN Append(final.yielded, final.next)
        ELSE final.yielded

_next_chunk(c) ==
    IF HasDash(c)
    THEN <<SubSeq(c, 1, FirstDash(c) - 1), SubSeq(c, FirstDash(c) + 1, Len(c))>>
    ELSE <<c, <<>> >>

\* a loop that takes a singleton without data as a key with no data
RECURSIVE _parse_extensions_loop_no_data_check(_, _)
_parse_extensions_loop_no_data_check(chunks, n) ==
    IF n = 0 THEN Return(<<>>)
    ELSE LET before == _parse_extensions_loop_no_data_check(chunks, n - 1)
             tag == chunks[n][1]
             data == Tail(chunks[n])
         IN  IF before.status = "raise" THEN before
             ELSE IF tag \in DOMAIN before.value
             THEN Raise(MalformedLanguageCodeException, "duplicate singleton")
             ELSE Return([k \in DOMAIN before.value \cup {tag} |->
                             IF k = tag THEN data ELSE before.value[k]])

\* a loop in which a later sequence of a singleton replaces the earlier one
RECURSIVE _parse_extensions_loop_overwriting(_, _)
_parse_extensions_loop_overwriting(chunks, n) ==
    IF n = 0 THEN Return(<<>>)
    ELSE LET before == _parse_extensions_loop_overwriting(chunks, n - 1)
             tag == chunks[n][1]
             data == Tail(chunks[n])
         IN  IF before.status = "raise" THEN before
             ELSE IF data = <<>>
             THEN Raise(MalformedLanguageCodeException, "singleton without data")
             ELSE Return([k \in DOMAIN before.value \cup {tag} |->
                             IF k = tag THEN data ELSE before.value[k]])

\* the loop of _parse_extensions over chunks[1..n]: the results dict, or the
\* raise that ended the loop
RECURSIVE _parse_extensions_loop(_, _)
_parse_extensions_loop(chunks, n) ==
    IF n = 0 THEN Return(<<>>)
    ELSE LET before == _parse_extensions_loop(chunks, n - 1)
             tag == chunks[n][1]
             data == Tail(chunks[n])
         IN  IF before.status = "raise" THEN before
             ELSE IF data = <<>>
             THEN Raise(MalformedLanguageCodeException, "singleton without data")
             ELSE IF tag \in DOMAIN before.value
             THEN Raise(MalformedLanguageCodeException, "duplicate singleton")
             ELSE Return([k \in DOMAIN before.value \cup {tag} |->
                             IF k = tag THEN data ELSE before.value[k]])

\* _parse_extensions on the chunks that _split_at made of the bits
_parse_extensions_chunks(chunks) ==
    IF chunks = <<>> THEN Return(<<>>)
    ELSE IF Len(chunks[1][1]) /= 1
    THEN Raise(MalformedLanguageCodeException, "garbage")
    ELSE _parse_extensions_loop(chunks, Len(chunks))

\* _parse_extensions on bits = code.split('-')
_parse_extensions_bits(bits) ==
    IF \E i \in DOMAIN bits : bits[i] = <<>>
    THEN Raise(MalformedLanguageCodeException, "garbage")
    ELSE _parse_extensions_chunks(_split_at(bits))

_parse_extensions(c) == _parse_extensions_bits(split(c))

\* a _parse_subtag that moves on to the next chunk also when there is no match
_parse_subtag_skipping(next, c, reg) ==
    IF next \in DOMAIN reg
    THEN <<reg[next], _next_chunk(c)[1], _next_chunk(c)[2]>>
    ELSE <<NoSubtag, _next_chunk(c)[1], _next_chunk(c)[2]>>

_parse_subtag(next, c, reg) ==
    IF next \in DOMAIN reg
    THEN <<reg[next], _next_chunk(c)[1], _next_chunk(c)[2]>>
    ELSE <<NoSubtag, next, c>>

\* a loop that puts each matched variant in front of the earlier ones
RECURSIVE _parse_variants_loop_prepending(_, _, _)
_parse_variants_loop_prepending(variants, next, c) ==
    LET p == _parse_subtag(next, c, VARIANT_SUBTAGS)
    IN  IF p[1] /= NoSubtag
        THEN _parse_variants_loop_prepending(<<p[1]>> \o variants, p[2], p[3])
        ELSE <<variants, p[2], p[3]>>

\* <<variants, next, code>>
RECURSIVE _parse_variants_loop(_, _, _)
_parse_variants_loop(variants, next, c) ==
    LET p == _parse_subtag(next, c, VARIANT_SUBTAGS)
    IN  IF p[1] /= NoSubtag
        THEN _parse_variants_loop(Append(variants, p[1]), p[2], p[3])
        ELSE <<variants, p[2], p[3]>>

_parse_variants(next, c) == _parse_variants_loop(<<>>, next, c)

EmptyResult ==
    [language |-> NoSubtag, extlang |-> NoSubtag, script |-> NoSubtag,
     region |-> NoSubtag, variants |-> <<>>, grandfathered |-> NoSubtag,
     extensions |-> <<>>]

\* result['extensions'] = _parse_extensions(code): the raise of
\* _parse_extensions, or the result with its extensions
_set_extensions(parsed, ext) ==
    IF ext.status = "raise" THEN ext
    ELSE Return([parsed EXCEPT !.extensions = ext.value])

\* result[field], next, code = p, on the state st = <<result, next, code>>
_assign(st, field, p) == <<[st[1] EXCEPT ![field] = p[1]], p[2], p[3]>>

\* _parse_code, lines 189-191: one optional subtag
_parse_optional(st, field, reg) ==
    _assign(st, field, _parse_subtag(st[2], st[3], reg))

\* _parse_code, line 192: the variants
_parse_all_variants(st) == _assign(st, "variants", _parse_variants(st[2], st[3]))

\* the extensions parsed from the code after next, next itself left out
_parse_remainder_without_next(st) ==
    IF st[2] /= <<>> /\ st[3] = <<>>
    THEN Raise(MalformedLanguageCodeException, "garbage")
    ELSE IF st[2] /= <<>>
    THEN _set_extensions(st[1], _parse_extensions(st[3]))
    ELSE Return(st[1])

\* _parse_code, lines 194-204: garbage, or the extensions, or nothing left
_parse_remainder(st) ==
    IF st[2] /= <<>> /\ st[3] = <<>>
    THEN Raise(MalformedLanguageCodeException, "garbage")
    ELSE IF st[2] /= <<>>
    THEN _set_extensions(st[1], _parse_extensions(st[2] \o <<"-">> \o st[3]))
    ELSE Return(st[1])

\* lines 188-204 of _parse_code, after the language was found
_parse_rest(language, next0, code0) ==
    _parse_remainder(
        _parse_all_variants(
            _parse_optional(
                _parse_optional(
                    _parse_optional(
                        <<[EmptyResult EXCEPT !.language = language], next0, code0>>,
                        "extlang", EXTLANG_SUBTAGS),
                    "script", SCRIPT_SUBTAGS),
                "region", REGION_SUBTAGS)))

\* a language lookup that returns the empty result for an unregistered language
_parse_language_lenient(c) ==
    LET language == _next_chunk(c)[1]
        rest == _next_chunk(c)[2]
    IN  IF language \in DOMAIN LANGUAGE_SUBTAGS
        THEN _parse_rest(LANGUAGE_SUBTAGS[language], _next_chunk(rest)[1],
                         _next_chunk(rest)[2])
        ELSE Return(EmptyResult)

\* a language lookup that does not move past the language chunk
_parse_language_no_advance(c) ==
    LET language == _next_chunk(c)[1]
        rest == _next_chunk(c)[2]
    IN  IF language \in DOMAIN LANGUAGE_SUBTAGS
        THEN _parse_rest(LANGUAGE_SUBTAGS[language], language, rest)
        ELSE Raise(MalformedLanguageCodeException, "invalid primary language")

\* _parse_code, lines 178-204: the language lookup on the lowered code
_parse_language(c) ==
    LET language == _next_chunk(c)[1]
        rest == _next_chunk(c)[2]
    IN  IF language \in DOMAIN LANGUAGE_SUBTAGS
        THEN _parse_rest(LANGUAGE_SUBTAGS[language], _next_chunk(rest)[1],
                         _next_chunk(rest)[2])
        ELSE Raise(MalformedLanguageCodeException, "invalid primary language")

\* no check for empty chunks
_parse_hyphens_unchecked(c) == _parse_language(c)

\* _parse_code, lines 173-176: no empty chunks
_parse_hyphens(c) ==
    IF \E i \in DOMAIN split(c) : split(c)[i] = <<>>
    THEN Raise(MalformedLanguageCodeException, "malformed hyphen")
    ELSE _parse_language(c)

\* no branch for the private-use codes
_parse_private_use_as_language(c) == _parse_hyphens(c)

\* a private-use code whose pieces after the 'x' are all its data
_parse_private_use_all_data(c) ==
    IF startswith(c, <<"x", "-">>)
    THEN IF \E i \in DOMAIN split(c) : split(c)[i] = <<>>
         THEN Raise(MalformedLanguageCodeException, "garbage")
         ELSE Return([EmptyResult EXCEPT !.extensions = [k \in {<<"x">>} |-> Tail(split(c))]])
    ELSE _parse_hyphens(c)

\* _parse_code, lines 168-171: "private use" codes
_parse_private_use(c) ==
    IF startswith(c, <<"x", "-">>)
    THEN _set_extensions(EmptyResult, _parse_extensions(c))
    ELSE _parse_hyphens(c)

\* grandfathered tags do not take precedence over a registered language
_parse_grandfathered_after_language(c) ==
    IF c \in DOMAIN GRANDFATHERED_SUBTAGS /\ _next_chunk(c)[1] \notin DOMAIN LANGUAGE_SUBTAGS
    THEN Return([EmptyResult EXCEPT !.grandfathered = GRANDFATHERED_SUBTAGS[c]])
    ELSE _parse_private_use(c)

\* _parse_code, lines 163-166: grandfathered tags take precedence
_parse_grandfathered(c) ==
    IF c \in DOMAIN GRANDFATHERED_SUBTAGS
    THEN Return([EmptyResult EXCEPT !.grandfathered = GRANDFATHERED_SUBTAGS[c]])
    ELSE _parse_private_use(c)

\* the code is parsed as it is spelled
_parse_code_case_sensitive(c0) == _parse_grandfathered(c0)

_parse_code(c0) == _parse_grandfathered(lower(c0))

_validate(l) == l

\* _validate on what _parse_code returned; a raise of _parse_code propagates
_validate_outcome(parsed) ==
    IF parsed.status = "raise" THEN parsed ELSE Return(_validate(parsed.value))

parse_code(bcp47_language_code) == _validate_outcome(_parse_code(bcp47_language_code))

(***************************************************************************)
(* bcp47/converter.py                                                      *)
(***************************************************************************)
KeyError == "KeyError"

\* dict.get(key): the value, or None
get(d, key) == IF key \in DOMAIN d THEN d[key] ELSE None

\* BCP47Dict.add(value, language, region, script): self[(language, region, script)] = value
add(d, value, language, region, script) ==
    [k \in DOMAIN d \cup {<<language, region, script>>} |->
        IF k = <<language, region, script>> THEN value ELSE d[k]]

\* BCP47Dict.add_all(langs), langs a sequence of <<value, language, region, script>>
RECURSIVE add_all(_, _)
add_all(d, langs) ==
    IF langs = <<>> THEN d
    ELSE add(add_all(d, SubSeq(langs, 1, Len(langs) - 1)),
             langs[Len(langs)][1], langs[Len(langs)][2],
             langs[Len(langs)][3], langs[Len(langs)][4])

\* a strict lookup that falls back to the key without the region
StrictDict_lookup_fallback(d, language, region, script) ==
    IF <<language, region, script>> \in DOMAIN d
    THEN Return(d[<<language, region, script>>])
    ELSE IF <<language, None, script>> \in DOMAIN d
    THEN Return(d[<<language, None, script>>])
    ELSE Raise(KeyError, "could not find")

StrictDict_lookup(d, language, region, script) ==
    IF <<language, region, script>> \in DOMAIN d
    THEN Return(d[<<language, region, script>>])
    ELSE Raise(KeyError, "could not find")

\* a or b, on str-or-None values
Or(a, b) == IF Truthy(a) THEN a ELSE b

\* a best-fit lookup that tries (language, region, None) before
\* (language, None, script)
BestFitDict_lookup_region_first(d, language, region, script) ==
    LET found == Or(get(d, <<language, region, script>>),
                 Or(get(d, <<language, region, None>>),
                 Or(get(d, <<language, None, script>>),
                 Or(get(d, <<language, None, None>>),
                    None))))
    IN  IF Truthy(found) THEN Return(found) ELSE Raise(KeyError, "could not find")

\* a best-fit lookup that tries the language alone first
BestFitDict_lookup_language_first(d, language, region, script) ==
    LET found == Or(get(d, <<language, None, None>>),
                 Or(get(d, <<language, None, script>>),
                 Or(get(d, <<language, region, None>>),
                 Or(get(d, <<language, region, script>>),
                    None))))
    IN  IF Truthy(found) THEN Return(found) ELSE Raise(KeyError, "could not find")

BestFitDict_lookup(d, language, region, script) ==
    LET found == Or(get(d, <<language, region, script>>),
                 Or(get(d, <<language, None, script>>),
                 Or(get(d, <<language, region, None>>),
                 Or(get(d, <<language, None, None>>),
                    None))))
    IN  IF Truthy(found) THEN Return(found) ELSE Raise(KeyError, "could not find")

\* a sample of the data of _make_bcp47_to_unilangs: the rows whose language
\* is one of the registry sample
data == <<
    <<s_ase, s_ase, None, None>>,
    <<s_en, s_en, None, None>>,
    <<s_en_gb, s_en, s_gb, None>>,
    <<s_nv, s_nv, None, None>>,
    <<s_yi, s_yi, None, None>>,
    <<s_zh_cn, s_zh, None, s_hans>>,
    <<s_zh_sg, s_zh, s_sg, s_hans>> >>

BCP47_TO_UNILANGS_STRICT == add_all(<<>>, data)
BCP47_TO_UNILANGS_LOSSY == add_all(<<>>, data)

_get_part(parts, part) ==
    IF parts[part] /= NoSubtag THEN lower(parts[part].subtag) ELSE None

\* a strict converter that has no code for a tag with variants or extensions
Strict_lookup_parts_plain_tags_only(d, parts) ==
    IF parts.status = "raise" THEN parts
    ELSE IF parts.value.variants /= <<>> \/ parts.value.extensions /= <<>>
    THEN Raise(KeyError, "could not find")
    ELSE StrictDict_lookup(d, _get_part(parts.value, "language"),
                           _get_part(parts.value, "region"),
                           _get_part(parts.value, "script"))

\* BCP47ToUnilangConverter.__getitem__(k) of a StrictBCP47ToUnilangConverter
\* whose _lookup_dict is d
Strict_lookup_parts(d, parts) ==
    IF parts.status = "raise" THEN parts
    ELSE StrictDict_lookup(d, _get_part(parts.value, "language"),
                           _get_part(parts.value, "region"),
                           _get_part(parts.value, "script"))

Strict__getitem__(d, k) == Strict_lookup_parts(d, parse_code(k))

\* a lossy converter that looks up as the strict one does
Lossy_lookup_parts_exact(d, parts) ==
    IF parts.status = "raise" THEN parts
    ELSE StrictDict_lookup(d, _get_part(parts.value, "language"),
                           _get_part(parts.value, "region"),
                           _get_part(parts.value, "script"))

\* the same of a LossyBCP47ToUnilangConverter
Lossy_lookup_parts(d, parts) ==
    IF parts.status = "raise" THEN parts
    ELSE BestFitDict_lookup(d, _get_part(parts.value, "language"),
                            _get_part(parts.value, "region"),
                            _get_part(parts.value, "script"))

Lossy__getitem__(d, k) == Lossy_lookup_parts(d, parse_code(k))

(***************************************************************************)
(* unilangs.py: the tables of the standards.  A dict of TO_INTERNAL is     *)
(* [class |-> "dict", items |-> the dict]; the two BCP47 converters are    *)
(* objects of their class that read BCP47_TO_UNILANGS_STRICT / _LOSSY.     *)
(* The code is Python 2 (the print statement of converter.py:306), where   *)
(* a dict yields its items in an order that is not the order of insertion: *)
(* the order is an argument of what iterates a dict.                       *)
(***************************************************************************)
Exception == "Exception"

s_iso == <<"i", "s", "o">>
s_ISO == <<"I", "S", "O">>
s_my == <<"m", "y">>
s_bcp47 == <<"b", "c", "p", "4", "7">>
s_bcp47_lossy == <<"b", "c", "p", "4", "7", "-", "l", "o", "s", "s", "y">>

Dict(d) == [class |-> "dict", items |-> d]
Converter(class) == [class |-> class, items |-> <<>>]

\* dict(pairs): a later pair with the same key replaces the earlier one
dict(pairs) ==
    [k \in {pairs[i][1] : i \in DOMAIN pairs} |->
        pairs[CHOOSE i \in DOMAIN pairs :
                /\ pairs[i][1] = k
                /\ \A j \in DOMAIN pairs : pairs[j][1] = k => j <= i][2]]

\* the orders in which a dict with the keys S can yield them
Orders(S) ==
    {f \in [1..Cardinality(S) -> S] :
        \A i, j \in 1..Cardinality(S) : i /= j => f[i] /= f[j]}

\* a reverse that keeps the direction: code -> internal code
_reverse_dict_not_reversed(d, items) ==
    dict([i \in DOMAIN items |-> <<items[i], d[items[i]]>>])

\* _reverse_dict(d), where d.items() yields the keys in the order items
_reverse_dict(d, items) ==
    dict([i \in DOMAIN items |-> <<d[items[i]], items[i]>>])

\* m.update(mapping)
update(m, mapping) ==
    [k \in DOMAIN m \cup DOMAIN mapping |->
        IF k \in DOMAIN mapping THEN mapping[k] ELSE m[k]]

\* for c in exclude: del m[c] (a None or empty exclude deletes nothing)
RECURSIVE del_each(_, _)
del_each(m, exclude) ==
    IF exclude = <<>> THEN Return(m)
    ELSE IF Head(exclude) \notin DOMAIN m THEN Raise(KeyError, "del m[c]")
    ELSE del_each([k \in DOMAIN m \ {Head(exclude)} |-> m[k]], Tail(exclude))

\* an add_standard that lets the base's value stand on a shared key
add_standard_m_base_wins(TO, mapping, base, exclude) ==
    IF Truthy(base)
    THEN IF base \notin DOMAIN TO THEN Raise(KeyError, "TO_INTERNAL[base]")
         ELSE del_each(update(mapping, TO[base].items), exclude)
    ELSE Return(mapping)

\* an add_standard that deletes the exclude keys also when it has no base
add_standard_m_exclude_always(TO, mapping, base, exclude) ==
    IF Truthy(base)
    THEN IF base \notin DOMAIN TO THEN Raise(KeyError, "TO_INTERNAL[base]")
         ELSE del_each(update(TO[base].items, mapping), exclude)
    ELSE del_each(mapping, exclude)

\* add_standard, lines 112-120: the dict m, or the KeyError of
\* TO_INTERNAL[base] or of del m[c]
add_standard_m(TO, mapping, base, exclude) ==
    IF Truthy(base)
    THEN IF base \notin DOMAIN TO THEN Raise(KeyError, "TO_INTERNAL[base]")
         ELSE del_each(update(TO[base].items, mapping), exclude)
    ELSE Return(mapping)

\* d[key] = value
setitem(d, key, value) ==
    [k \in DOMAIN d \cup {key} |-> IF k = key THEN value ELSE d[k]]

\* TO_INTERNAL after TO_INTERNAL[standard] = m, or as it was if m was
\* never made
registered(TO, standard, m) ==
    IF m.status = "raise" THEN TO ELSE setitem(TO, standard, Dict(m.value))

\* an add_standard that works on the base's dict itself, not on a copy
add_standard_TO_INTERNAL_base_shared(TO, standard, mapping, base, exclude) ==
    IF Truthy(base)
    THEN registered(registered(TO, base, add_standard_m(TO, mapping, base, exclude)),
                    standard, add_standard_m(TO, mapping, base, exclude))
    ELSE registered(TO, standard, add_standard_m(TO, mapping, base, exclude))

\* an add_standard that puts m into TO_INTERNAL before it deletes the
\* exclude keys from it
add_standard_TO_INTERNAL_assigned_first(TO, standard, mapping, base, exclude) ==
    IF Truthy(base) /\ base \in DOMAIN TO
    THEN registered(registered(TO, standard, Return(update(TO[base].items, mapping))),
                    standard, add_standard_m(TO, mapping, base, exclude))
    ELSE registered(TO, standard, add_standard_m(TO, mapping, base, exclude))

\* add_standard, lines 112-122: TO_INTERNAL after the call.  m is a copy of
\* the base's dict and is put into TO_INTERNAL when it is complete, so a
\* raise leaves TO_INTERNAL as it was and a return changes the entry of
\* standard and no other
add_standard_TO_INTERNAL(TO, standard, mapping, base, exclude) ==
    registered(TO, standard, add_standard_m(TO, mapping, base, exclude))

\* a bcp47 code with the parts in the order of the key: language, region,
\* script
bcp47_code_in_key_order(bcp47) == join(SelectSeq(<<bcp47[1], bcp47[2], bcp47[3]>>, Truthy))

\* the bcp47 code of a key of BCP47_TO_UNILANGS_STRICT:
\* '-'.join(filter(None, (language, script, region)))
bcp47_code(bcp47) == join(SelectSeq(<<bcp47[1], bcp47[3], bcp47[2]>>, Truthy))

\* _make_unilangs_to_bcp47(): no two rows of the sample have the same
\* unilangs code, so the order of the items makes no difference
UNILANGS_TO_BCP47 ==
    [unilangs_code \in {BCP47_TO_UNILANGS_STRICT[k] : k \in DOMAIN BCP47_TO_UNILANGS_STRICT} |->
        bcp47_code(CHOOSE k \in DOMAIN BCP47_TO_UNILANGS_STRICT :
                       BCP47_TO_UNILANGS_STRICT[k] = unilangs_code)]

StrictBCP47ToUnilangConverter == "StrictBCP47ToUnilangConverter"
LossyBCP47ToUnilangConverter == "LossyBCP47ToUnilangConverter"

\* the tables after _add_bcp47(), the standards that are plain dicts left to
\* add_standard
InitStandards ==
    /\ TO_INTERNAL = [standard \in {s_bcp47, s_bcp47_lossy} |->
                         IF standard = s_bcp47
                         THEN Converter(StrictBCP47ToUnilangConverter)
                         ELSE Converter(LossyBCP47ToUnilangConverter)]
    /\ FROM_INTERNAL = [standard \in {s_bcp47, s_bcp47_lossy} |-> UNILANGS_TO_BCP47]

\* standard_dict[language_code], standard_dict a dict or a converter
getitem(standard_dict, language_code, strict, lossy) ==
    IF standard_dict.class = StrictBCP47ToUnilangConverter
    THEN Strict__getitem__(strict, language_code)
    ELSE IF standard_dict.class = LossyBCP47ToUnilangConverter
    THEN Lossy__getitem__(lossy, language_code)
    ELSE IF language_code \in DOMAIN standard_dict.items
    THEN Return(standard_dict.items[language_code])
    ELSE Raise(KeyError, "standard_dict[language_code]")

\* self._code = ...: the object, or the raise of the lookup
LanguageCode_object(looked_up) ==
    IF looked_up.status = "raise" THEN looked_up
    ELSE Return([_code |-> looked_up.value])

\* a LanguageCode that looks the standard up as it is spelled
LanguageCode__init___case_sensitive(TO, language_code, standard, strict, lossy) ==
    IF standard \notin DOMAIN TO
    THEN Raise(Exception, "Standard is not registred")
    ELSE LanguageCode_object(getitem(TO[standard], language_code, strict, lossy))

\* LanguageCode.__init__(language_code, standard)
LanguageCode__init__(TO, language_code, standard, strict, lossy) ==
    IF lower(standard) \notin DOMAIN TO
    THEN Raise(Exception, "Standard is not registred")
    ELSE LanguageCode_object(getitem(TO[lower(standard)], language_code, strict, lossy))

\* an encode that gives back the internal code itself
encode_internal(FROM, self, standard, fuzzy) ==
    IF fuzzy THEN Return(None)
    ELSE IF lower(standard) \notin DOMAIN FROM
    THEN Raise(KeyError, "FROM_INTERNAL[standard.lower()]")
    ELSE Return(self._code)

\* LanguageCode.encode(standard, fuzzy): _fuzzy_encode returns None;
\* FROM_INTERNAL[standard.lower()][self._code] raises the KeyError of the
\* first or of the second subscript
encode(FROM, self, standard, fuzzy) ==
    IF fuzzy THEN Return(None)
    ELSE IF lower(standard) \notin DOMAIN FROM
    THEN Raise(KeyError, "FROM_INTERNAL[standard.lower()]")
    ELSE IF self._code \notin DOMAIN FROM[lower(standard)]
    THEN Raise(KeyError, "FROM_INTERNAL[standard.lower()][self._code]")
    ELSE Return(FROM[lower(standard)][self._code])

\* an aliases that subscripts every standard's table
aliases_of_every_standard(FROM, self) ==
    IF \E standard \in DOMAIN FROM : self._code \notin DOMAIN FROM[standard]
    THEN Raise(KeyError, "FROM_INTERNAL[standard][self._code]")
    ELSE Return([standard \in DOMAIN FROM |-> FROM[standard][self._code]])

\* LanguageCode.aliases()
aliases(FROM, self) ==
    Return([standard \in {st \in DOMAIN FROM : Truthy(get(FROM[st], self._code))} |->
               FROM[standard][self._code]])

(***************************************************************************)
(* The parser and the strict converter, each applied to one tag           *)
(***************************************************************************)
MaxPieces == 3

\* pieces for the order of the subtags and the extensions after them
PIECES_SUBTAGS == {s_sgn, s_ase, s_Latn, s_US, s_rozaj, s_x, s_foo}

\* pieces for a language that has a preferred value
PIECES_PREFERRED == {s_ji, s_Latn, s_US, s_x, s_foo}

\* pieces for the hyphens: the empty piece stands for a leading, trailing or
\* doubled hyphen
PIECES_HYPHENS == {s_empty, s_sgn, s_US, s_x, s_foo}

\* pieces for the grandfathered tags, not in the registry's spelling
PIECES_GRANDFATHERED == {s_empty, s_ART, s_lojban, s_i, s_Navajo, s_x}

\* pieces for the extensions: two singletons and two data pieces
PIECES_EXTENSIONS == {s_x, s_a, s_foo, s_bar}

\* pieces after a language for the region and the variants
PIECES_VARIANTS == {s_US, s_rozaj, s_biske, s_foo}

\* the sequences of 1 to MaxPieces pieces
PieceSeqs(pieces) == UNION {[1..n -> pieces] : n \in 1..MaxPieces}

TagsOver(pieces) == {join(ps) : ps \in PieceSeqs(pieces)}

\* a first piece and 1 to MaxPieces + 1 pieces after it
TagsAfter(first, pieces) ==
    {join(<<first>> \o ps) : ps \in UNION {[1..n -> pieces] : n \in 1..(MaxPieces + 1)}}

\* every tag of at most MaxPieces pieces, the variants and the extensions
\* after a language, the extensions after the private-use 'x', and every
\* registered language alone
TAGS ==
    TagsOver(PIECES_SUBTAGS) \cup TagsOver(PIECES_PREFERRED)
        \cup TagsOver(PIECES_HYPHENS) \cup TagsOver(PIECES_GRANDFATHERED)
        \cup TagsAfter(s_sgn, PIECES_VARIANTS)
        \cup TagsAfter(s_sgn, PIECES_EXTENSIONS) \cup TagsAfter(s_x, PIECES_EXTENSIONS)
        \cup DOMAIN LANGUAGE_SUBTAGS

InitParse ==
    /\ op = "input"
    /\ code \in TAGS
    /\ args = <<None, None, None>>
    /\ result = NoResult
    /\ strict_dict = BCP47_TO_UNILANGS_STRICT
    /\ lossy_dict = BCP47_TO_UNILANGS_LOSSY
    /\ InitStandards

Call_parse_code_raw ==
    /\ op = "input"
    /\ op' = "_parse_code"
    /\ result' = _parse_code(code)
    /\ UNCHANGED <<code, args, strict_dict, lossy_dict>>
    /\ UNCHANGED standards

Call_parse_code ==
    /\ op = "input"
    /\ op' = "parse_code"
    /\ result' = parse_code(code)
    /\ UNCHANGED <<code, args, strict_dict, lossy_dict>>
    /\ UNCHANGED standards

Call_decode_bcp47 ==
    /\ op = "input"
    /\ op' = "decode bcp47"
    /\ result' = Strict__getitem__(strict_dict, code)
    /\ UNCHANGED <<code, args, strict_dict, lossy_dict>>
    /\ UNCHANGED standards

NextParse ==
    \/ Call_parse_code_raw
    \/ Call_parse_code
    \/ Call_decode_bcp47

SpecParse == InitParse /\ [][NextParse]_vars

(***************************************************************************)
(* What the claims about the parser speak of                               *)
(***************************************************************************)
Parsed == op \in {"_parse_code", "parse_code"}

\* the pieces of the lowered tag
Pieces == split(lower(code))

HasEmptyPiece == LET pcs == Pieces IN \E i \in DOMAIN pcs : pcs[i] = <<>>

\* the registered tags and <<type, subtag>> pairs, lowered
REGISTERED_TAGS == {lower(st.tag) : st \in {r \in REGISTRY : r.type = "grandfathered"}}

REGISTERED_SUBTAGS ==
    {<<st.type, lower(st.subtag)>> : st \in {r \in REGISTRY : r.type /= "grandfathered"}}

IsGrandfatheredTag == lower(code) \in REGISTERED_TAGS

IsPrivateUseTag == startswith(lower(code), <<"x", "-">>)

RegisteredAs(typ, piece) == <<typ, piece>> \in REGISTERED_SUBTAGS

EntryOf(typ, piece) ==
    CHOOSE st \in REGISTRY : st.type = typ /\ lower(st.subtag) = piece

GrandfatheredEntry ==
    CHOOSE st \in REGISTRY : st.type = "grandfathered" /\ lower(st.tag) = lower(code)

FirstPieceUnregistered ==
    /\ ~RegisteredAs("language", Pieces[1])
    /\ ~IsGrandfatheredTag
    /\ ~IsPrivateUseTag

Raised(msg) ==
    /\ result.status = "raise"
    /\ result.exc = MalformedLanguageCodeException
    /\ result.msg = msg

\* C3 as stated: a tag whose first piece is no registered language (no
\* grandfathered tag, no 'x-' tag) fails with the invalid-language error,
\* here the raise of line 185.
C3_InvalidLanguageAlways ==
    (Parsed /\ FirstPieceUnregistered) => Raised("invalid primary language")

\* C3 amended: such a tag always fails, with the parser's one exception class
\* and no result; the failure is the invalid-primary-language one exactly
\* when the tag has no empty piece, and the malformed-hyphen one otherwise.
C3_UnregisteredFirstPieceFails ==
    (Parsed /\ FirstPieceUnregistered) =>
        /\ result.status = "raise"
        /\ result.exc = MalformedLanguageCodeException
        /\ (~HasEmptyPiece => result.msg = "invalid primary language")
        /\ (HasEmptyPiece => result.msg = "malformed hyphen")

\* a tag that starts with a script, as 'Latn-US', was rejected
C3_Witness ==
    /\ op = "parse_code"
    /\ FirstPieceUnregistered
    /\ Len(Pieces) = 2
    /\ RegisteredAs("script", Pieces[1])
    /\ RegisteredAs("region", Pieces[2])
    /\ Raised("invalid primary language")

\* C4: the raw parse of a tag that is, lowered, a grandfathered tag returns
\* that registry entry in grandfathered and nothing else, also when its first
\* piece is a registered language; and every raw parse result that has
\* grandfathered set has every other field empty.
C4_GrandfatheredOnly ==
    (op = "_parse_code") =>
        /\ IsGrandfatheredTag =>
              result = Return([EmptyResult EXCEPT !.grandfathered = GrandfatheredEntry])
        /\ (result.status = "return" /\ result.value.grandfathered /= NoSubtag) =>
              result.value = [EmptyResult EXCEPT
                                 !.grandfathered = result.value.grandfathered]

\* 'ART-lojban' was parsed raw: its first piece is the language art
C4_Witness ==
    /\ op = "_parse_code"
    /\ code /= lower(code)
    /\ lower(code) = s_art_lojban
    /\ RegisteredAs("language", Pieces[1])
    /\ result.status = "return"
    /\ result.value.grandfathered.tag = s_art_lojban

HasPreferredValue(st) == st.preferred_value /= None

\* C5 as stated: parse_code of a grandfathered tag with a preferred value
\* returns the language entry of the preferred value and nothing else, and
\* decoding it through 'bcp47' gives the code registered for the preferred
\* value.
C5_GrandfatheredNormalized ==
    (IsGrandfatheredTag /\ HasPreferredValue(GrandfatheredEntry)) =>
        /\ (op = "parse_code") =>
              result = Return([EmptyResult EXCEPT !.language =
                          EntryOf("language", lower(GrandfatheredEntry.preferred_value))])
        /\ (op = "decode bcp47") =>
              result = StrictDict_lookup(strict_dict,
                          lower(GrandfatheredEntry.preferred_value), None, None)

\* the raw parse of the lowered tag, for the claims about what parse_code
\* adds to it; read only where the raw parse returns
Raw == _parse_code(code).value

HasPreferredExtlang ==
    /\ ~IsGrandfatheredTag
    /\ _parse_code(code).status = "return"
    /\ Raw.extlang /= NoSubtag
    /\ HasPreferredValue(Raw.extlang)

\* C6 as stated: parse_code of a tag whose extlang has a preferred value
\* returns the language entry of that value, no extlang, and the rest as
\* parsed; decoding it through 'bcp47' gives the code registered for that
\* language (with the region and script of the tag).
C6_ExtlangNormalized ==
    HasPreferredExtlang =>
        /\ (op = "parse_code") =>
              result = Return([Raw EXCEPT
                          !.language = EntryOf("language", lower(Raw.extlang.preferred_value)),
                          !.extlang = NoSubtag])
        /\ (op = "decode bcp47" /\ Raw.script = NoSubtag /\ Raw.region = NoSubtag) =>
              result = StrictDict_lookup(strict_dict,
                          lower(Raw.extlang.preferred_value), None, None)

HasPreferredLanguage ==
    /\ ~IsGrandfatheredTag
    /\ _parse_code(code).status = "return"
    /\ Raw.language /= NoSubtag
    /\ HasPreferredValue(Raw.language)
    /\ Raw.extlang = NoSubtag

\* C7 as stated: parse_code replaces a primary language that has a preferred
\* value by the language entry of that value and leaves script, region,
\* variants and extensions as parsed.
C7_LanguageNormalized ==
    (op = "parse_code" /\ HasPreferredLanguage) =>
        result = Return([Raw EXCEPT !.language =
                    EntryOf("language", lower(Raw.language.preferred_value))])

\* C8: parsing a bare registered language subtag L succeeds with the registry
\* entry whose key is L as the language and every other field empty.
C8_BareLanguage ==
    (Parsed /\ Len(Pieces) = 1 /\ RegisteredAs("language", Pieces[1])) =>
        /\ result = Return([EmptyResult EXCEPT !.language = EntryOf("language", Pieces[1])])
        /\ lower(result.value.language.subtag) = lower(code)

\* the bare tag 'ase', which is a language and an extlang, was parsed
C8_Witness ==
    /\ op = "parse_code"
    /\ lower(code) = s_ase
    /\ RegisteredAs("extlang", Pieces[1])
    /\ result.status = "return"
    /\ result.value.language = Subtag("language", s_ase, None)

(***************************************************************************)
(* The stages after the language, by position in the pieces: each stage    *)
(* looks at one position once and moves on by one when it matches.         *)
(***************************************************************************)
At(pcs, i) == IF i \in DOMAIN pcs THEN pcs[i] ELSE <<>>

\* the first position from i on that holds no registered variant
RECURSIVE VariantsEnd(_, _)
VariantsEnd(pcs, i) ==
    IF RegisteredAs("variant", At(pcs, i)) THEN VariantsEnd(pcs, i + 1) ELSE i

\* where each stage looks, and where the variants stop
Stages(pcs) ==
    LET extlangAt == 2
        scriptAt == IF RegisteredAs("extlang", At(pcs, extlangAt))
                    THEN extlangAt + 1 ELSE extlangAt
        regionAt == IF RegisteredAs("script", At(pcs, scriptAt))
                    THEN scriptAt + 1 ELSE scriptAt
        variantsAt == IF RegisteredAs("region", At(pcs, regionAt))
                      THEN regionAt + 1 ELSE regionAt
    IN  [extlang |-> extlangAt, script |-> scriptAt, region |-> regionAt,
         variants |-> variantsAt, leftover |-> VariantsEnd(pcs, variantsAt)]

OptionalEntry(typ, piece) ==
    IF RegisteredAs(typ, piece) THEN EntryOf(typ, piece) ELSE NoSubtag

StartsWithLanguage ==
    /\ ~IsGrandfatheredTag
    /\ ~IsPrivateUseTag
    /\ ~HasEmptyPiece
    /\ RegisteredAs("language", Pieces[1])

\* C9: after the language at most one extlang, then at most one script, then
\* at most one region are matched, in that order, each on one piece; a piece
\* left over after the variants that is no singleton is rejected as
\* malformed, whatever it is registered as, and a returned result holds
\* exactly the entries matched at those positions.
C9_FixedOrderNoRetry ==
    (Parsed /\ StartsWithLanguage) =>
        LET pcs == Pieces
            at == Stages(pcs)
            leftover == At(pcs, at.leftover)
        IN  /\ (at.leftover <= Len(pcs) /\ Len(leftover) /= 1) => Raised("garbage")
            /\ (result.status = "return") =>
                  /\ result.value.language = EntryOf("language", pcs[1])
                  /\ result.value.extlang = OptionalEntry("extlang", At(pcs, at.extlang))
                  /\ result.value.script = OptionalEntry("script", At(pcs, at.script))
                  /\ result.value.region = OptionalEntry("region", At(pcs, at.region))
                  /\ Len(result.value.variants) = at.leftover - at.variants
                  /\ (at.leftover > Len(pcs) \/ Len(leftover) = 1)

\* a script after a region, as 'sgn-US-Latn', was rejected
C9_Witness ==
    /\ op = "parse_code"
    /\ StartsWithLanguage
    /\ Len(Pieces) = 3
    /\ RegisteredAs("region", Pieces[2])
    /\ RegisteredAs("script", Pieces[3])
    /\ Raised("garbage")

\* C10: a tag with an empty piece is rejected as malformed, by the hyphen
\* check (or, in an 'x-' tag, by the extension parser) and never by the
\* language lookup, also when its first piece is no registered language.
C10_EmptyPieceMalformed ==
    (Parsed /\ HasEmptyPiece) =>
        /\ result.status = "raise"
        /\ result.exc = MalformedLanguageCodeException
        /\ result.msg = (IF IsPrivateUseTag THEN "garbage" ELSE "malformed hyphen")

\* 'foo--US' was rejected: its first piece is no registered language
C10_Witness ==
    /\ op = "parse_code"
    /\ HasEmptyPiece
    /\ Len(Pieces) = 3
    /\ Pieces[1] /= <<>>
    /\ Pieces[2] = <<>>
    /\ FirstPieceUnregistered
    /\ Raised("malformed hyphen")

(***************************************************************************)
(* The extensions, by position in the pieces                               *)
(***************************************************************************)
IsSingleton(piece) == Len(piece) = 1

\* a singleton that is the last piece or is followed by a singleton
SingletonWithoutData(pcs) ==
    \E i \in DOMAIN pcs :
        /\ IsSingleton(pcs[i])
        /\ (i = Len(pcs) \/ IsSingleton(pcs[i + 1]))

\* the same singleton at two places
RepeatedSingleton(pcs) ==
    \E i, j \in DOMAIN pcs : i < j /\ IsSingleton(pcs[i]) /\ pcs[i] = pcs[j]

\* where the extensions of a tag start: at the 'x' of a private-use tag, or
\* at the piece left over after the variants of a tag that starts with a language
ExtensionsStart(pcs) == IF IsPrivateUseTag THEN 1 ELSE Stages(pcs).leftover

\* the tag is a private-use tag, or a language with its subtags and then
\* nothing or a singleton
ExtensionsWellPlaced(pcs) ==
    /\ IsPrivateUseTag \/ StartsWithLanguage
    /\ ~HasEmptyPiece
    /\ ExtensionsStart(pcs) <= Len(pcs) => IsSingleton(pcs[ExtensionsStart(pcs)])

\* C11: a tag with a singleton that has no data piece after it, because it is
\* the last piece or is followed by another singleton, is rejected as
\* malformed; where the tag is otherwise well formed the parser says that the
\* singleton has no data (or, for a lone singleton after the subtags, garbage).
C11_SingletonWithoutData ==
    (Parsed /\ SingletonWithoutData(Pieces)) =>
        LET pcs == Pieces
        IN  /\ result.status = "raise"
            /\ result.exc = MalformedLanguageCodeException
            /\ (ExtensionsWellPlaced(pcs) /\ ~RepeatedSingleton(pcs)) =>
                  result.msg = (IF ~IsPrivateUseTag /\ ExtensionsStart(pcs) = Len(pcs)
                                THEN "garbage" ELSE "singleton without data")

\* 'sgn-x-foo-a' was rejected: the singleton a is the last piece
C11_Witness ==
    /\ op = "parse_code"
    /\ Pieces = <<s_sgn, s_x, s_foo, s_a>>
    /\ Raised("singleton without data")

\* the places of the singletons in a tag
Singletons(pcs) == {i \in DOMAIN pcs : IsSingleton(pcs[i])}

\* C12: a tag in which the same singleton stands at two places is rejected as
\* malformed, as a duplicate where the tag is otherwise well formed; a
\* returned result has one extension key for each singleton of the tag.
C12_DuplicateSingleton ==
    Parsed =>
        LET pcs == Pieces
        IN  /\ RepeatedSingleton(pcs) =>
                  /\ result.status = "raise"
                  /\ result.exc = MalformedLanguageCodeException
                  /\ (ExtensionsWellPlaced(pcs) /\ ~SingletonWithoutData(pcs)) =>
                        result.msg = "duplicate singleton"
            /\ (result.status = "return" /\ result.value.grandfathered = NoSubtag) =>
                  /\ DOMAIN result.value.extensions = {pcs[i] : i \in Singletons(pcs)}
                  /\ Cardinality(DOMAIN result.value.extensions) = Cardinality(Singletons(pcs))

\* 'sgn-a-foo-a-bar' was rejected: a introduces two sequences
C12_Witness ==
    /\ op = "parse_code"
    /\ Pieces = <<s_sgn, s_a, s_foo, s_a, s_bar>>
    /\ Raised("duplicate singleton")

\* the first place from i on that holds a singleton, or the place after the
\* last piece
RECURSIVE DataEnd(_, _)
DataEnd(pcs, i) ==
    IF i > Len(pcs) \/ IsSingleton(pcs[i]) THEN i ELSE DataEnd(pcs, i + 1)

\* each singleton from start on with the pieces between it and the next one
ExpectedExtensions(pcs, start) ==
    LET places == {i \in Singletons(pcs) : i >= start}
    IN  [k \in {pcs[i] : i \in places} |->
            LET i == CHOOSE j \in places : pcs[j] = k
            IN  SubSeq(pcs, i + 1, DataEnd(pcs, i + 1) - 1)]

\* the number of pieces in the extensions ext: its keys and their data
RECURSIVE ExtensionPieces(_)
ExtensionPieces(ext) ==
    IF DOMAIN ext = {} THEN 0
    ELSE LET k == CHOOSE key \in DOMAIN ext : TRUE
         IN  1 + Len(ext[k]) + ExtensionPieces([j \in DOMAIN ext \ {k} |-> ext[j]])

Count(entry) == IF entry = NoSubtag THEN 0 ELSE 1

\* C13: a tag whose extensions are well placed, with data after every
\* singleton and no singleton twice, parses; the extensions of a result map
\* each singleton to the pieces between it and the next singleton, in the
\* order of the tag, and the language, extlang, script, region, variants,
\* extension keys and extension data of the result are as many as the pieces
\* of the tag.
C13_ExtensionsAccountForPieces ==
    Parsed =>
        LET pcs == Pieces
        IN  /\ (ExtensionsWellPlaced(pcs) /\ ~SingletonWithoutData(pcs)
                    /\ ~RepeatedSingleton(pcs)) => result.status = "return"
            /\ (result.status = "return" /\ result.value.grandfathered = NoSubtag) =>
                  /\ result.value.extensions = ExpectedExtensions(pcs, ExtensionsStart(pcs))
                  /\ Count(result.value.language) + Count(result.value.extlang)
                        + Count(result.value.script) + Count(result.value.region)
                        + Len(result.value.variants)
                        + ExtensionPieces(result.value.extensions) = Len(pcs)

\* 'sgn-x-foo-a-bar' was parsed: two singletons, each with its data
C13_Witness ==
    /\ op = "parse_code"
    /\ Pieces = <<s_sgn, s_x, s_foo, s_a, s_bar>>
    /\ result.status = "return"
    /\ DOMAIN result.value.extensions = {s_x, s_a}
    /\ result.value.extensions[s_x] = <<s_foo>>
    /\ result.value.extensions[s_a] = <<s_bar>>

\* C14: the variants of a result are the registry entries of the pieces from
\* the place after the region stage up to the first piece that is no
\* registered variant, in the order of the tag.
C14_VariantsInOrder ==
    (Parsed /\ StartsWithLanguage /\ result.status = "return") =>
        LET pcs == Pieces
            at == Stages(pcs)
        IN  /\ result.value.variants =
                  [i \in 1..(at.leftover - at.variants) |->
                      EntryOf("variant", pcs[at.variants + i - 1])]
            /\ ~RegisteredAs("variant", At(pcs, at.leftover))

\* 'sgn-US-biske-rozaj' was parsed: two variants after the region
C14_Witness ==
    /\ op = "parse_code"
    /\ Pieces = <<s_sgn, lower(s_US), s_biske, s_rozaj>>
    /\ result.status = "return"
    /\ result.value.region /= NoSubtag
    /\ result.value.variants =
          <<Subtag("variant", s_biske, None), Subtag("variant", s_rozaj, None)>>

\* C15: a tag that starts with 'x-' is parsed as extensions only: a result has
\* nothing but extensions, a failure is one of the extension parser and never
\* one of the hyphen check or of the language lookup, and an 'x' followed by
\* data pieces only gives the one key x with all of them, registered
\* languages among them.
C15_PrivateUseOnlyExtensions ==
    (Parsed /\ IsPrivateUseTag) =>
        LET pcs == Pieces
        IN  /\ (result.status = "return") =>
                  result.value = [EmptyResult EXCEPT !.extensions = result.value.extensions]
            /\ (result.status = "raise") =>
                  result.msg \in {"garbage", "singleton without data", "duplicate singleton"}
            /\ (\A i \in 2..Len(pcs) : Len(pcs[i]) > 1) =>
                  result = Return([EmptyResult EXCEPT !.extensions =
                                      [k \in {s_x} |-> Tail(pcs)]])

\* 'x-sgn-US' was parsed: sgn is private-use data and no language
C15_Witness ==
    /\ op = "parse_code"
    /\ Pieces = <<s_x, s_sgn, lower(s_US)>>
    /\ result.status = "return"
    /\ result.value.language = NoSubtag
    /\ result.value.extensions[s_x] = <<s_sgn, lower(s_US)>>

\* two outcomes that both fail or both return the same value
SameOutcome(a, b) ==
    /\ a.status = b.status
    /\ (a.status = "return") => a.value = b.value

\* C16: parse_code of a tag, of the tag in upper case and of the tag in lower
\* case all fail or all return equal results.
C16_CaseInsensitive ==
    (op = "parse_code") =>
        /\ SameOutcome(result, parse_code(upper(code)))
        /\ SameOutcome(result, parse_code(lower(code)))

\* 'sgn-Latn-US' was parsed: it differs from its upper and its lower case
C16_Witness ==
    /\ op = "parse_code"
    /\ code = join(<<s_sgn, s_Latn, s_US>>)
    /\ code /= upper(code)
    /\ code /= lower(code)
    /\ result.status = "return"
    /\ result.value.script = Subtag("script", s_Latn, None)
    /\ result = parse_code(upper(code))


\* C30: in a tag that starts with 'x-', a one-character piece after the
\* data of the 'x' starts an extension sequence of its own: the tag is
\* accepted when every singleton has data and none is repeated, the later
\* singleton is a key with the pieces after it, and the data of the 'x' ends
\* before it.
C30_LaterSingletonStartsSequence ==
    (/\ Parsed
     /\ IsPrivateUseTag
     /\ ~HasEmptyPiece
     /\ ~SingletonWithoutData(Pieces)
     /\ ~RepeatedSingleton(Pieces)
     /\ \E i \in 3..Len(Pieces) : IsSingleton(Pieces[i])) =>
        /\ result.status = "return"
        /\ result.value.extensions[s_x] = SubSeq(Pieces, 2, DataEnd(Pieces, 2) - 1)
        /\ \A i \in 3..Len(Pieces) :
              IsSingleton(Pieces[i]) =>
                  /\ Pieces[i] \in DOMAIN result.value.extensions
                  /\ result.value.extensions[Pieces[i]] =
                         SubSeq(Pieces, i + 1, DataEnd(Pieces, i + 1) - 1)
                  /\ \A j \in DOMAIN result.value.extensions[s_x] :
                         result.value.extensions[s_x][j] /= Pieces[i]

\* 'x-foo-a-bar' was parsed: x has foo, a has bar
C30_Witness ==
    /\ op = "parse_code"
    /\ Pieces = <<s_x, s_foo, s_a, s_bar>>
    /\ result.status = "return"
    /\ DOMAIN result.value.extensions = {s_x, s_a}
    /\ result.value.extensions[s_x] = <<s_foo>>
    /\ result.value.extensions[s_a] = <<s_bar>>

(***************************************************************************)
(* The two dictionaries filled row by row as _make_bcp47_to_unilangs fills *)
(* them (every row goes into both), and looked up.                         *)
(***************************************************************************)
MaxRows == 4

LANGUAGES == {s_sr, s_en}
REGIONS == {None, s_sr}
SCRIPTS == {None, s_latn}
UNILANGS_CODES == {s_sr, s_sr_latn}

InitLookup ==
    /\ op = "init"
    /\ code = <<>>
    /\ args = <<None, None, None>>
    /\ result = NoResult
    /\ strict_dict = <<>>
    /\ lossy_dict = <<>>
    /\ InitStandards

\* one row of data: lossy_dict.add(*lang) and strict_dict.add(*lang)
Call_add(value, language, region, script) ==
    /\ Cardinality(DOMAIN strict_dict \cup {<<language, region, script>>}) <= MaxRows
    /\ op' = "add"
    /\ args' = <<None, None, None>>
    /\ result' = NoResult
    /\ lossy_dict' = add(lossy_dict, value, language, region, script)
    /\ strict_dict' = add(strict_dict, value, language, region, script)
    /\ UNCHANGED code
    /\ UNCHANGED standards

Call_StrictDict_lookup(language, region, script) ==
    /\ op' = "StrictDict.lookup"
    /\ args' = <<language, region, script>>
    /\ result' = StrictDict_lookup(strict_dict, language, region, script)
    /\ UNCHANGED <<code, strict_dict, lossy_dict>>
    /\ UNCHANGED standards

Call_BestFitDict_lookup(language, region, script) ==
    /\ op' = "BestFitDict.lookup"
    /\ args' = <<language, region, script>>
    /\ result' = BestFitDict_lookup(lossy_dict, language, region, script)
    /\ UNCHANGED <<code, strict_dict, lossy_dict>>
    /\ UNCHANGED standards

NextLookup ==
    \/ \E value \in UNILANGS_CODES, language \in LANGUAGES, region \in REGIONS,
          script \in SCRIPTS : Call_add(value, language, region, script)
    \/ \E language \in LANGUAGES \cup {None}, region \in REGIONS, script \in SCRIPTS :
          Call_StrictDict_lookup(language, region, script)
    \/ \E language \in LANGUAGES \cup {None}, region \in REGIONS, script \in SCRIPTS :
          Call_BestFitDict_lookup(language, region, script)

SpecLookup == InitLookup /\ [][NextLookup]_vars

(***************************************************************************)
(* What the claims about the dictionaries speak of                         *)
(***************************************************************************)
\* the four keys of the best-fit lookup of args, in the order of the claim
Candidates ==
    << <<args[1], args[2], args[3]>>, <<args[1], None, args[3]>>,
       <<args[1], args[2], None>>, <<args[1], None, None>> >>

Present(d) == {i \in 1..4 : Candidates[i] \in DOMAIN d}

Min(S) == CHOOSE i \in S : \A j \in S : i <= j

\* C1: BestFitDict.lookup returns the value of the first of the four keys that
\* is in the table, fails with the not-found error exactly when none is, and
\* the key it answers from has the requested language.
C1_BestFitFirstPresent ==
    (op = "BestFitDict.lookup") =>
        /\ (Present(lossy_dict) = {}) <=> (result = Raise(KeyError, "could not find"))
        /\ (Present(lossy_dict) /= {}) =>
              /\ result = Return(lossy_dict[Candidates[Min(Present(lossy_dict))]])
              /\ Candidates[Min(Present(lossy_dict))][1] = args[1]

\* the lookup of (sr, sr, latn) found no exact key and answered from
\* (sr, None, latn) although (sr, sr, None) and (sr, None, None) hold another value
C1_Witness ==
    /\ op = "BestFitDict.lookup"
    /\ args = <<s_sr, s_sr, s_latn>>
    /\ Present(lossy_dict) = {2, 3, 4}
    /\ lossy_dict[<<s_sr, None, s_latn>>] = s_sr_latn
    /\ lossy_dict[<<s_sr, s_sr, None>>] = s_sr
    /\ lossy_dict[<<s_sr, None, None>>] = s_sr
    /\ result = Return(s_sr_latn)

\* C2: StrictDict.lookup returns the value of the exact triple when it is a
\* key and fails with the not-found error otherwise, whatever else the table
\* holds; with only (sr, None, latn) registered the strict lookup of
\* (sr, sr, latn) fails and the best-fit lookup of it returns that row's value.
C2_StrictExactOnly ==
    /\ (op = "StrictDict.lookup") =>
          /\ (args \in DOMAIN strict_dict) => result = Return(strict_dict[args])
          /\ (args \notin DOMAIN strict_dict) => result = Raise(KeyError, "could not find")
    /\ (DOMAIN strict_dict = {<<s_sr, None, s_latn>>}
            /\ DOMAIN lossy_dict = {<<s_sr, None, s_latn>>}
            /\ args = <<s_sr, s_sr, s_latn>>) =>
          /\ (op = "StrictDict.lookup") => result.status = "raise"
          /\ (op = "BestFitDict.lookup") =>
                result = Return(lossy_dict[<<s_sr, None, s_latn>>])

\* the strict lookup of (sr, sr, latn) failed with only (sr, None, latn) registered
C2_Witness ==
    /\ op = "StrictDict.lookup"
    /\ args = <<s_sr, s_sr, s_latn>>
    /\ DOMAIN strict_dict = {<<s_sr, None, s_latn>>}
    /\ result = Raise(KeyError, "could not find")
    /\ BestFitDict_lookup(lossy_dict, s_sr, s_sr, s_latn).status = "return"


\* C29: whenever StrictDict.lookup succeeds, BestFitDict.lookup of the same
\* (language, region, script) on the table with the same rows succeeds and
\* returns the same value.
C29_BestFitAgreesWithStrict ==
    (op = "StrictDict.lookup" /\ result.status = "return") =>
        /\ DOMAIN lossy_dict = DOMAIN strict_dict
        /\ \A k \in DOMAIN strict_dict : lossy_dict[k] = strict_dict[k]
        /\ BestFitDict_lookup(lossy_dict, args[1], args[2], args[3]) = result

\* the strict lookup of (sr, sr, latn) returned sr-latn from a table whose
\* rows (sr, None, latn), (sr, sr, None) and (sr, None, None) hold sr
C29_Witness ==
    /\ op = "StrictDict.lookup"
    /\ args = <<s_sr, s_sr, s_latn>>
    /\ result = Return(s_sr_latn)
    /\ DOMAIN lossy_dict = {<<s_sr, s_sr, s_latn>>, <<s_sr, None, s_latn>>,
                            <<s_sr, s_sr, None>>, <<s_sr, None, None>>}
    /\ lossy_dict[<<s_sr, None, s_latn>>] = s_sr
    /\ lossy_dict[<<s_sr, s_sr, None>>] = s_sr
    /\ lossy_dict[<<s_sr, None, None>>] = s_sr

(***************************************************************************)
(* The standards: add_standard called with small mappings, and             *)
(* LanguageCode constructed from a code and the name of a standard.        *)
(***************************************************************************)
MaxMapping == 2

STANDARDS == {s_iso, s_my}
BASES == {None, s_iso}
STANDARD_CODES == {s_yi, s_ji}
INTERNAL_CODES == {s_yi, s_nv}
EXCLUDES == {<<>>, <<s_ji>>}
LANGUAGE_CODES == STANDARD_CODES \cup {s_foo}

\* the mappings, each as the pairs it was built from, no key twice
MAPPINGS ==
    UNION {{pairs \in [1..n -> STANDARD_CODES \X INTERNAL_CODES] :
               \A i, j \in 1..n : i /= j => pairs[i][1] /= pairs[j][1]}
           : n \in 0..MaxMapping}

InitStandardsSpec ==
    /\ op = "init"
    /\ code = <<>>
    /\ args = <<>>
    /\ result = NoResult
    /\ strict_dict = BCP47_TO_UNILANGS_STRICT
    /\ lossy_dict = BCP47_TO_UNILANGS_LOSSY
    /\ InitStandards

\* add_standard(standard, dict(pairs), base, exclude)
Call_add_standard(standard, pairs, base, exclude) ==
    /\ op' = "add_standard"
    /\ args' = [standard |-> standard, mapping |-> pairs, base |-> base,
                exclude |-> exclude]
    /\ UNCHANGED <<code, strict_dict, lossy_dict>>
    /\ TO_INTERNAL' = add_standard_TO_INTERNAL(TO_INTERNAL, standard, dict(pairs),
                                               base, exclude)
    /\ LET m == add_standard_m(TO_INTERNAL, dict(pairs), base, exclude)
       IN  \/ /\ m.status = "raise"
              /\ result' = m
              /\ UNCHANGED FROM_INTERNAL
           \/ /\ m.status = "return"
              /\ result' = Return(None)
              /\ \E items \in Orders(DOMAIN m.value) :
                    FROM_INTERNAL' = setitem(FROM_INTERNAL, standard,
                                             _reverse_dict(m.value, items))

\* LanguageCode(language_code, standard)
Call_LanguageCode(language_code, standard) ==
    /\ op' = "LanguageCode"
    /\ args' = [language_code |-> language_code, standard |-> standard]
    /\ result' = LanguageCode__init__(TO_INTERNAL, language_code, standard,
                                      strict_dict, lossy_dict)
    /\ UNCHANGED <<code, strict_dict, lossy_dict>>
    /\ UNCHANGED standards

\* self.encode(standard, fuzzy)
Call_encode(self, standard, fuzzy) ==
    /\ op' = "encode"
    /\ args' = [self |-> self, standard |-> standard, fuzzy |-> fuzzy]
    /\ result' = encode(FROM_INTERNAL, self, standard, fuzzy)
    /\ UNCHANGED <<code, strict_dict, lossy_dict>>
    /\ UNCHANGED standards

\* self.aliases()
Call_aliases(self) ==
    /\ op' = "aliases"
    /\ args' = [self |-> self]
    /\ result' = aliases(FROM_INTERNAL, self)
    /\ UNCHANGED <<code, strict_dict, lossy_dict>>
    /\ UNCHANGED standards

\* the LanguageCode objects at hand: whatever internal code a standard had
\* for some code when an object was made from it stays in the object while
\* the standards are registered anew
OBJECTS == {[_code |-> c] : c \in INTERNAL_CODES}

\* the names a standard is asked for by: registered or not, in upper case,
\* and the strict BCP47 standard
STANDARD_NAMES == STANDARDS \cup {s_ISO, s_bcp47}

NextStandards ==
    \/ \E standard \in STANDARDS, pairs \in MAPPINGS, base \in BASES,
          exclude \in EXCLUDES : Call_add_standard(standard, pairs, base, exclude)
    \/ \E language_code \in LANGUAGE_CODES, standard \in STANDARD_NAMES :
          Call_LanguageCode(language_code, standard)
    \/ \E self \in OBJECTS, standard \in STANDARD_NAMES, fuzzy \in BOOLEAN :
          Call_encode(self, standard, fuzzy)
    \/ \E self \in OBJECTS : Call_aliases(self)

SpecStandards == InitStandardsSpec /\ [][NextStandards]_vars

(***************************************************************************)
(* What the claims about the standards speak of                            *)
(***************************************************************************)
Range(d) == {d[k] : k \in DOMAIN d}

\* the keys that exclude names
Excluded(exclude) == {exclude[i] : i \in DOMAIN exclude}

\* base's dict overlaid with mapping, the keys of E removed
Overlaid(base_dict, mapping, E) ==
    [k \in (DOMAIN base_dict \cup DOMAIN mapping) \ E |->
        IF k \in DOMAIN mapping THEN mapping[k] ELSE base_dict[k]]

\* C17: a call add_standard(S, mapping, base=B, exclude=E) with B registered
\* and every key of E in B's table or in mapping returns and leaves as the
\* to_internal table of S the table B had before the call, overlaid with
\* mapping (the mapping's value on a shared key), without the keys of E; any
\* other call with a base fails with KeyError.
C17_BaseOverlayExclude ==
    [][(op' = "add_standard" /\ Truthy(args'.base)) =>
          LET S == args'.standard
              B == args'.base
              mapping == dict(args'.mapping)
              E == Excluded(args'.exclude)
          IN  IF /\ B \in DOMAIN TO_INTERNAL
                 /\ E \subseteq DOMAIN TO_INTERNAL[B].items \cup DOMAIN mapping
              THEN /\ result'.status = "return"
                   /\ TO_INTERNAL'[S] = Dict(Overlaid(TO_INTERNAL[B].items, mapping, E))
              ELSE /\ result'.status = "raise"
                   /\ result'.exc = KeyError
      ]_vars

\* 'my' was made from 'iso' {yi: yi, ji: yi} with the mapping {yi: nv} and
\* without ji: it is {yi: nv}
C17_Witness ==
    /\ op = "add_standard"
    /\ args.standard = s_my
    /\ args.base = s_iso
    /\ args.mapping = << <<s_yi, s_nv>> >>
    /\ args.exclude = <<s_ji>>
    /\ result.status = "return"
    /\ s_iso \in DOMAIN TO_INTERNAL
    /\ TO_INTERNAL[s_iso].items = dict(<< <<s_yi, s_yi>>, <<s_ji, s_yi>> >>)
    /\ TO_INTERNAL[s_my].items = dict(<< <<s_yi, s_nv>> >>)

\* the standards that add_standard registered
AddedStandards == {S \in DOMAIN TO_INTERNAL : TO_INTERNAL[S].class = "dict"}

\* the key of the last pair of pairs that has the value v
LastInserted(pairs, v) ==
    pairs[CHOOSE i \in DOMAIN pairs :
            /\ pairs[i][2] = v
            /\ \A j \in DOMAIN pairs : pairs[j][2] = v => j <= i][1]

C19_ExcludeWithoutBase ==
    (op = "add_standard" /\ ~Truthy(args.base) /\ result.status = "return") =>
        \A c \in Excluded(args.exclude) :
            /\ c \notin DOMAIN TO_INTERNAL[args.standard].items
            /\ c \notin Range(FROM_INTERNAL[args.standard])

\* C19 amended: add_standard without a base returns and leaves the mapping
\* as it is as the to_internal table, whatever exclude says: a key of
\* exclude that is in the mapping is in the table.
C19_MappingWithoutBase ==
    (op = "add_standard" /\ ~Truthy(args.base)) =>
        /\ result.status = "return"
        /\ TO_INTERNAL[args.standard] = Dict(dict(args.mapping))
        /\ \A c \in Excluded(args.exclude) :
              c \in DOMAIN dict(args.mapping) =>
                  c \in DOMAIN TO_INTERNAL[args.standard].items

\* a standard was made from {ji: nv} without a base and with exclude (ji):
\* ji is in its to_internal and is the reverse entry of nv
C19_Witness ==
    /\ op = "add_standard"
    /\ args.base = None
    /\ args.mapping = << <<s_ji, s_nv>> >>
    /\ args.exclude = <<s_ji>>
    /\ result.status = "return"
    /\ s_ji \in DOMAIN TO_INTERNAL[args.standard].items
    /\ FROM_INTERNAL[args.standard][s_nv] = s_ji

\* the standard is registered, looked up in lower case as LanguageCode does
Registered(standard) == lower(standard) \in DOMAIN TO_INTERNAL

\* the code has a value in the standard: a key of its dict, or a tag that the
\* converter decodes
HasCode(standard, language_code) ==
    getitem(TO_INTERNAL[lower(standard)], language_code,
            strict_dict, lossy_dict).status = "return"

\* C20 as stated: LanguageCode fails with the unknown-standard error (the
\* plain Exception) when the standard is not registered, and with the
\* unknown-code error (KeyError) when it is registered and the code has no
\* value in it.
C20_UnknownStandardOrCode ==
    (op = "LanguageCode") =>
        /\ ~Registered(args.standard) =>
              (result.status = "raise" /\ result.exc = Exception)
        /\ (Registered(args.standard) /\ ~HasCode(args.standard, args.language_code)) =>
              (result.status = "raise" /\ result.exc = KeyError)

IsConverter(standard_dict) ==
    standard_dict.class \in {StrictBCP47ToUnilangConverter, LossyBCP47ToUnilangConverter}

\* C20 amended: LanguageCode fails with the plain Exception when the
\* standard, in lower case, is not registered; when it is registered, it
\* gives the object of the code's value if the code has one, fails with
\* MalformedLanguageCodeException if the standard is a BCP47 converter and
\* the code does not parse, and fails with KeyError otherwise.
C20_ConstructorErrors ==
    (op = "LanguageCode") =>
        IF ~Registered(args.standard)
        THEN result.status = "raise" /\ result.exc = Exception
        ELSE LET standard_dict == TO_INTERNAL[lower(args.standard)]
                 language_code == args.language_code
             IN  IF IsConverter(standard_dict) /\ parse_code(language_code).status = "raise"
                 THEN /\ result.status = "raise"
                      /\ result.exc = MalformedLanguageCodeException
                 ELSE IF ~IsConverter(standard_dict)
                 THEN IF language_code \in DOMAIN standard_dict.items
                      THEN result = Return([_code |-> standard_dict.items[language_code]])
                      ELSE result.status = "raise" /\ result.exc = KeyError
                 ELSE (result.status = "raise") => result.exc = KeyError

\* LanguageCode('foo', 'bcp47') failed with the parser's exception
C20_Witness ==
    /\ op = "LanguageCode"
    /\ args.standard = s_bcp47
    /\ args.language_code = s_foo
    /\ Registered(args.standard)
    /\ ~HasCode(args.standard, args.language_code)
    /\ result.status = "raise"
    /\ result.exc = MalformedLanguageCodeException

\* C21: encode(standard) fails with the unknown-standard error (the plain
\* Exception that the constructor raises) when the standard is not
\* registered, and with the unknown-code error (KeyError) when it is
\* registered and its from_internal table has no entry for the object's
\* code: the caller can tell the two failures apart.
C21_EncodeErrorsDistinguishable ==
    (op = "encode" /\ ~args.fuzzy) =>
        /\ lower(args.standard) \notin DOMAIN FROM_INTERNAL =>
              (result.status = "raise" /\ result.exc = Exception)
        /\ (/\ lower(args.standard) \in DOMAIN FROM_INTERNAL
            /\ args.self._code \notin DOMAIN FROM_INTERNAL[lower(args.standard)]) =>
              (result.status = "raise" /\ result.exc = KeyError)

\* C22: an operation that raises leaves TO_INTERNAL and FROM_INTERNAL, the
\* table of every standard, as they were before the call.
C22_FailureLeavesTables ==
    [][result'.status = "raise" =>
          (TO_INTERNAL' = TO_INTERNAL /\ FROM_INTERNAL' = FROM_INTERNAL)]_vars

\* add_standard('my', {yi: nv}, base='iso', exclude=('ji',)) raised on the
\* del of ji, which iso does not have, and 'my' is as it was: not registered
C22_Witness ==
    /\ op = "add_standard"
    /\ result.status = "raise"
    /\ args.standard = s_my
    /\ args.base = s_iso
    /\ args.exclude = <<s_ji>>
    /\ s_iso \in DOMAIN TO_INTERNAL
    /\ s_ji \notin DOMAIN TO_INTERNAL[s_iso].items
    /\ s_my \notin DOMAIN TO_INTERNAL

\* C23: when encode(B) returns b for an object, b is a code of B and
\* decoding b in B gives the object's canonical code (the code that
\* decoding c in A gave).
C23_EncodedCodeDecodesBack ==
    (op = "encode" /\ ~args.fuzzy /\ result.status = "return") =>
        getitem(TO_INTERNAL[lower(args.standard)], result.value,
                strict_dict, lossy_dict) = Return(args.self._code)

\* the object of nv encoded as ji in 'my', where ji and yi are codes
C23_Witness ==
    /\ op = "encode"
    /\ ~args.fuzzy
    /\ args.standard = s_my
    /\ args.self = [_code |-> s_nv]
    /\ result = Return(s_ji)
    /\ DOMAIN TO_INTERNAL[s_my].items = {s_yi, s_ji}

\* the standards whose from_internal table has an entry for the code
StandardsWith(internal_code) ==
    {standard \in DOMAIN FROM_INTERNAL : internal_code \in DOMAIN FROM_INTERNAL[standard]}

\* C27: aliases() returns the dict of exactly the registered standards whose
\* from_internal table has an entry for the object's code, each with that
\* standard's code, and never raises.
C27_AliasesExactlyStandardsWithEntry ==
    (op = "aliases") =>
        /\ result.status = "return"
        /\ DOMAIN result.value = StandardsWith(args.self._code)
        /\ \A standard \in DOMAIN result.value :
              result.value[standard] = FROM_INTERNAL[standard][args.self._code]

\* the aliases of nv: 'my' has ji for it, 'iso' is registered and has no
\* entry, 'bcp47' has nv
C27_Witness ==
    /\ op = "aliases"
    /\ args.self = [_code |-> s_nv]
    /\ s_iso \in DOMAIN FROM_INTERNAL
    /\ s_iso \notin DOMAIN result.value
    /\ s_my \in DOMAIN result.value
    /\ result.value[s_my] = s_ji
    /\ result.value[s_bcp47] = s_nv

\* C28: add_standard(S, ...) changes no table but those of S: not the tables
\* of its base B, and not the tables of a standard built earlier, whatever is
\* registered later (B anew, or further standards on top of S).
C28_OtherStandardsUnchanged ==
    [][op' = "add_standard" =>
          \A T \in DOMAIN TO_INTERNAL \ {args'.standard} :
              /\ T \in DOMAIN TO_INTERNAL'
              /\ T \in DOMAIN FROM_INTERNAL'
              /\ TO_INTERNAL'[T] = TO_INTERNAL[T]
              /\ FROM_INTERNAL'[T] = FROM_INTERNAL[T]]_vars

\* 'my' was made from 'iso' {yi: yi, ji: yi} with the mapping {yi: nv}:
\* it is {yi: nv, ji: yi}, and 'iso' is still {yi: yi, ji: yi}
C28_Witness ==
    /\ op = "add_standard"
    /\ result.status = "return"
    /\ args.standard = s_my
    /\ args.base = s_iso
    /\ args.mapping = << <<s_yi, s_nv>> >>
    /\ args.exclude = <<>>
    /\ TO_INTERNAL[s_my].items = dict(<< <<s_yi, s_nv>>, <<s_ji, s_yi>> >>)
    /\ TO_INTERNAL[s_iso].items = dict(<< <<s_yi, s_yi>>, <<s_ji, s_yi>> >>)
    /\ FROM_INTERNAL[s_iso] = dict(<< <<s_yi, s_ji>> >>)

(***************************************************************************)
(* The BCP47 standards: a tag decoded by LanguageCode and the object       *)
(* encoded again                                                           *)
(***************************************************************************)
MaxSubtags == 3

\* the pieces after the language en, and after the language zh
PIECES_AFTER_EN == {s_Latn, s_US, s_GB, s_rozaj, s_a, s_foo}
PIECES_AFTER_ZH == {s_Hans, s_SG, s_a, s_foo}

\* a language and up to MaxSubtags pieces after it
TagsWith(language, pieces) ==
    {join(<<language>> \o ps) : ps \in UNION {[1..n -> pieces] : n \in 0..MaxSubtags}}

BCP47_TAGS == TagsWith(s_en, PIECES_AFTER_EN) \cup TagsWith(s_zh, PIECES_AFTER_ZH)

BCP47_STANDARDS == {s_bcp47, s_bcp47_lossy}

InitBCP47 ==
    /\ op = "input"
    /\ code \in BCP47_TAGS
    /\ args = <<>>
    /\ result = NoResult
    /\ strict_dict = BCP47_TO_UNILANGS_STRICT
    /\ lossy_dict = BCP47_TO_UNILANGS_LOSSY
    /\ InitStandards

\* lc = LanguageCode(code, standard), then lc.encode(standard)
NextBCP47 ==
    \/ /\ op = "input"
       /\ \E standard \in BCP47_STANDARDS : Call_LanguageCode(code, standard)
    \/ /\ op = "LanguageCode"
       /\ result.status = "return"
       /\ \E standard \in BCP47_STANDARDS : Call_encode(result.value, standard, FALSE)

SpecBCP47 == InitBCP47 /\ [][NextBCP47]_vars

(***************************************************************************)
(* What the claims about the BCP47 standards speak of                      *)
(***************************************************************************)
\* the pieces are a registered language, then a registered script or none,
\* then a registered region or none
IsLanguageScriptRegion(pcs) ==
    /\ Len(pcs) \in 1..3
    /\ pcs[1] \in DOMAIN LANGUAGE_SUBTAGS
    /\ Len(pcs) = 2 => pcs[2] \in DOMAIN SCRIPT_SUBTAGS \cup DOMAIN REGION_SUBTAGS
    /\ Len(pcs) = 3 => (pcs[2] \in DOMAIN SCRIPT_SUBTAGS /\ pcs[3] \in DOMAIN REGION_SUBTAGS)

\* the (language, region, script) of such pieces
TripleOf(pcs) ==
    <<pcs[1],
      IF pcs[Len(pcs)] \in DOMAIN REGION_SUBTAGS /\ Len(pcs) > 1 THEN pcs[Len(pcs)] ELSE None,
      IF Len(pcs) > 1 /\ pcs[2] \in DOMAIN SCRIPT_SUBTAGS THEN pcs[2] ELSE None>>

\* the tag is a language, script and region whose triple has a row
HasRegisteredTriple ==
    /\ IsLanguageScriptRegion(Pieces)
    /\ TripleOf(Pieces) \in DOMAIN strict_dict

\* C24: a tag that is only a language, a script and a region whose triple has
\* a row decodes through 'bcp47' to that row's code, and the object encodes
\* to 'bcp47' as the tag in lower case.
C24_StrictRoundTrip ==
    [][/\ (op = "input" /\ op' = "LanguageCode" /\ args'.standard = s_bcp47
              /\ HasRegisteredTriple) =>
             result' = Return([_code |-> strict_dict[TripleOf(Pieces)]])
       /\ (op = "LanguageCode" /\ args.standard = s_bcp47
              /\ op' = "encode" /\ args'.standard = s_bcp47
              /\ HasRegisteredTriple) =>
             result' = Return(lower(code))]_vars

\* 'zh-Hans-SG' decoded to zh-sg and encoded as 'zh-hans-sg'
C24_Witness ==
    /\ op = "encode"
    /\ code = join(<<s_zh, s_Hans, s_SG>>)
    /\ args.standard = s_bcp47
    /\ args.self = [_code |-> s_zh_sg]
    /\ result = Return(join(<<s_zh, s_hans, s_sg>>))

\* the (language, region, script) that the converters look up for parts
LookedUp(parts) ==
    <<_get_part(parts, "language"), _get_part(parts, "region"), _get_part(parts, "script")>>

\* the language alone has a row, and no row has it with the region or the
\* script of the triple
OnlyLanguageRegistered(d, t) ==
    /\ <<t[1], None, None>> \in DOMAIN d
    /\ t /= <<t[1], None, None>>
    /\ \A k \in {t, <<t[1], None, t[3]>>, <<t[1], t[2], None>>} :
          k /= <<t[1], None, None>> => k \notin DOMAIN d

\* C25: a tag whose language alone has a row, its region and script forming
\* no row with it, decodes through 'bcp47-lossy' to the code that the bare
\* language decodes to.
C25_LossyDropsScriptAndRegion ==
    (/\ op = "LanguageCode"
     /\ args.standard = s_bcp47_lossy
     /\ parse_code(code).status = "return"
     /\ OnlyLanguageRegistered(lossy_dict, LookedUp(parse_code(code).value))) =>
        /\ result = Return([_code |-> lossy_dict[<<LookedUp(parse_code(code).value)[1], None, None>>]])
        /\ result = LanguageCode__init__(TO_INTERNAL, LookedUp(parse_code(code).value)[1],
                                         s_bcp47_lossy, strict_dict, lossy_dict)

\* 'en-Latn-US' decoded through 'bcp47-lossy' to en
C25_Witness ==
    /\ op = "LanguageCode"
    /\ args.standard = s_bcp47_lossy
    /\ code = join(<<s_en, s_Latn, s_US>>)
    /\ result = Return([_code |-> s_en])

\* the tag of the language, script and region of parts alone, as the tag
\* spells them
PlainTag(parts) ==
    join(SelectSeq(<<IF parts.language /= NoSubtag THEN parts.language.subtag ELSE None,
                     IF parts.script /= NoSubtag THEN parts.script.subtag ELSE None,
                     IF parts.region /= NoSubtag THEN parts.region.subtag ELSE None>>,
                   Truthy))

\* C26: under 'bcp47' and under 'bcp47-lossy', a tag that parses decodes to
\* what the tag of its language, script and region alone decodes to: the
\* variants and the extensions change nothing.
C26_VariantsAndExtensionsIgnored ==
    (op = "LanguageCode" /\ parse_code(code).status = "return") =>
        result = LanguageCode__init__(TO_INTERNAL, PlainTag(parse_code(code).value),
                                      args.standard, strict_dict, lossy_dict)

\* 'en-GB-a-foo' decoded through 'bcp47' to en-gb
C26_Witness ==
    /\ op = "LanguageCode"
    /\ args.standard = s_bcp47
    /\ code = join(<<s_en, s_GB, s_a, s_foo>>)
    /\ parse_code(code).value.extensions /= <<>>
    /\ result = Return([_code |-> s_en_gb])
====
